---------------------------- MODULE Spec2Model ----------------------------
(***************************************************************************)
(* A model of the content-acquisition pipeline of the bot:                 *)
(*   src/bot/bot.py          summarize_callback, get_message_text          *)
(*   src/bot/utils.py        parse_url, docs_to_str, load_document,        *)
(*                           download, fix_twitter                         *)
(*   src/bot/loaders/url.py  is_pdf, is_youtube_url, replace_domain,       *)
(*                           load_url                                      *)
(*                                                                         *)
(* Strings are sequences of tokens.  A token is a delimiter character      *)
(* (":", "/", "?", "#", ";"), a white-space character (" ", "\n") or a     *)
(* word: a non-empty run of URL scheme characters (letters, digits, "+",   *)
(* "-", ".") that starts with a letter.                                    *)
(***************************************************************************)
EXTENDS Integers, Sequences, FiniteSets, TLC

VARIABLES
    norm,       \* the normaliser under test: input, function, outputs
    red,        \* the reducer under test: fragments, output
    op,         \* which entry point the running request entered
    pc,         \* the position of the running request
    message,    \* the update's message: present, text, reply text
    rawText,    \* get_message_text's result for the request
    parsed,     \* the URL parse_url extracted from rawText
    url,        \* the URL the request is working on
    calls,      \* the collaborator calls issued by the request, in order
    captions,   \* what the caption fetch met: "ok", "none", "error", "n/a"
    probe,      \* what the HEAD probe met, "n/a" when none was issued
    outcome,    \* how the request ended
    raisedAt,   \* the call an escaping exception came from, "" when none
    text,       \* the text the acquisition returned
    replies,    \* the replies sent for the running request
    tempFiles,  \* the temporary files that exist on disk
    created,    \* the number of temporary files created so far
    owned       \* the temporary files created by the running acquisition

vars == <<norm, red, op, pc, message, rawText, parsed, url, calls, captions, probe,
          outcome, raisedAt, text, replies, tempFiles, created, owned>>

pipeVars == <<op, pc, message, rawText, parsed, url, calls, captions, probe,
              outcome, raisedAt, text, replies, tempFiles, created, owned>>

(***************************************************************************)
(* Bounds of the model.                                                    *)
(***************************************************************************)
MaxTail == 4        \* tokens after the prefix of a normaliser input
MaxDocs == 3        \* fragments handed to the reducer
MaxFragLen == 2     \* characters of one fragment
MaxFiles == 2       \* temporary files created over a run

(***************************************************************************)
(* Sequences.                                                              *)
(***************************************************************************)
SeqsUpTo(S, n) == UNION {[1..k -> S] : k \in 0..n}

\* The first index of s that holds a member of T, 0 when there is none.
FindIn(s, T) ==
    IF \E i \in 1..Len(s) : s[i] \in T
    THEN CHOOSE i \in 1..Len(s) : s[i] \in T /\ \A j \in 1..(i-1) : s[j] \notin T
    ELSE 0

\* The last index of s that holds a member of T, 0 when there is none.
RFindIn(s, T) ==
    IF \E i \in 1..Len(s) : s[i] \in T
    THEN CHOOSE i \in 1..Len(s) :
            s[i] \in T /\ \A j \in (i+1)..Len(s) : s[j] \notin T
    ELSE 0

Drop(s, n) == SubSeq(s, n + 1, Len(s))
Take(s, n) == SubSeq(s, 1, n)

\* str.startswith
StartsWith(s, p) == Len(p) <= Len(s) /\ Take(s, Len(p)) = p

\* str.endswith
EndsWith(s, p) == Len(p) <= Len(s) /\ Drop(s, Len(s) - Len(p)) = p

(***************************************************************************)
(* Tokens.                                                                 *)
(***************************************************************************)
Delims == {":", "/", "?", "#", ";"}
Spaces == {" ", "\n"}
IsWord(t) == t \notin Delims /\ t \notin Spaces

\* str.lower on a token
lower(t) == IF t = "HTTPS" THEN "https" ELSE t
LowerAll(s) == [i \in 1..Len(s) |-> lower(s[i])]

(***************************************************************************)
(* urllib.parse.urlparse and urlunparse, as replace_domain and fix_twitter *)
(* use them.                                                               *)
(***************************************************************************)
uses_params == {<<>>, <<"http">>, <<"https">>}

\* urlsplit strips leading spaces and removes every "\n" before it parses.
LStrip(s) ==
    LET ks == {i \in 1..Len(s) : s[i] # " "}
    IN  IF ks = {} THEN <<>> ELSE Drop(s, (CHOOSE i \in ks : \A j \in ks : i <= j) - 1)
RemoveUnsafe(s) == SelectSeq(LStrip(s), LAMBDA t : t # "\n")

\* urlsplit: the scheme is what precedes the first ":" when that is a
\* non-empty run of scheme characters; it is lower-cased.
SplitScheme(s) ==
    LET i == FindIn(s, {":"})
    IN  IF i > 1 /\ \A k \in 1..(i-1) : IsWord(s[k])
        THEN [scheme |-> LowerAll(Take(s, i - 1)), rest |-> Drop(s, i)]
        ELSE [scheme |-> <<>>, rest |-> s]

\* urlsplit, _splitnetloc: after "//" the netloc runs to the first of "/?#".
SplitNetloc(r) ==
    LET d == FindIn(Drop(r.rest, 2), {"/", "?", "#"})
    IN  IF ~StartsWith(r.rest, <<"/", "/">>)
        THEN [scheme |-> r.scheme, netloc |-> <<>>, rest |-> r.rest]
        ELSE IF d = 0
        THEN [scheme |-> r.scheme, netloc |-> Drop(r.rest, 2), rest |-> <<>>]
        ELSE [scheme |-> r.scheme, netloc |-> SubSeq(r.rest, 3, d + 1),
              rest |-> Drop(r.rest, d + 1)]

\* urlsplit: the fragment follows the first "#".
SplitFragment(r) ==
    LET f == FindIn(r.rest, {"#"})
    IN  IF f = 0
        THEN [scheme |-> r.scheme, netloc |-> r.netloc, rest |-> r.rest,
              fragment |-> <<>>]
        ELSE [scheme |-> r.scheme, netloc |-> r.netloc, rest |-> Take(r.rest, f - 1),
              fragment |-> Drop(r.rest, f)]

\* urlsplit: the query follows the first "?" of what is left.
SplitQuery(r) ==
    LET q == FindIn(r.rest, {"?"})
    IN  IF q = 0
        THEN [scheme |-> r.scheme, netloc |-> r.netloc, rest |-> r.rest,
              query |-> <<>>, fragment |-> r.fragment]
        ELSE [scheme |-> r.scheme, netloc |-> r.netloc, rest |-> Take(r.rest, q - 1),
              query |-> Drop(r.rest, q), fragment |-> r.fragment]

\* _splitparams: the index of the first ";" of the last path segment, 0 when
\* there is none.
ParamsAt(path) ==
    LET slash == RFindIn(path, {"/"})
        from == IF slash = 0 THEN 0 ELSE slash - 1
        semi == FindIn(Drop(path, from), {";"})
    IN  IF semi = 0 THEN 0 ELSE semi + from

\* urlparse: the parameters are split off for the schemes that use them.
SplitParams(r) ==
    LET semi == ParamsAt(r.rest)
    IN  IF r.scheme \in uses_params /\ semi # 0
        THEN [scheme |-> r.scheme, netloc |-> r.netloc, path |-> Take(r.rest, semi - 1),
              params |-> Drop(r.rest, semi), query |-> r.query,
              fragment |-> r.fragment]
        ELSE [scheme |-> r.scheme, netloc |-> r.netloc, path |-> r.rest,
              params |-> <<>>, query |-> r.query, fragment |-> r.fragment]

urlparse(u) ==
    SplitParams(SplitQuery(SplitFragment(SplitNetloc(SplitScheme(RemoveUnsafe(u))))))

uses_netloc == {<<>>, <<"http">>, <<"https">>}

\* urlunsplit: "//" and the netloc go before the path.
WithNetloc(p, u) ==
    IF p.netloc # <<>>
       \/ (p.scheme # <<>> /\ p.scheme \in uses_netloc /\ ~StartsWith(u, <<"/", "/">>))
    THEN <<"/", "/">> \o p.netloc
         \o (IF u # <<>> /\ u[1] # "/" THEN <<"/">> ELSE <<>>) \o u
    ELSE u

WithScheme(p, u) == IF p.scheme # <<>> THEN p.scheme \o <<":">> \o u ELSE u
WithQuery(p, u) == IF p.query # <<>> THEN u \o <<"?">> \o p.query ELSE u
WithFragment(p, u) == IF p.fragment # <<>> THEN u \o <<"#">> \o p.fragment ELSE u

urlunparse(p) ==
    WithFragment(p, WithQuery(p, WithScheme(p, WithNetloc(p,
        IF p.params # <<>> THEN p.path \o <<";">> \o p.params ELSE p.path))))

(***************************************************************************)
(* The URL normaliser: replace_domain (loaders/url.py) and fix_twitter     *)
(* (utils.py), each with its own replacement table.                        *)
(***************************************************************************)
replacements_chained ==
    [k \in {<<"twitter.com">>, <<"x.com">>} |->
        IF k = <<"x.com">> THEN <<"twitter.com">> ELSE <<"api.fxtwitter.com">>]

replacements ==
    [k \in {<<"twitter.com">>, <<"x.com">>} |-> <<"api.fxtwitter.com">>]

twitter_replacements ==
    [k \in {<<"twitter.com">>, <<"x.com">>} |-> <<"api.fxtwitter.com">>]

\* A replace_domain that rebuilds the URL without its query and fragment.
replace_domain_bare(u) ==
    LET parsed_url == urlparse(u)
    IN  IF parsed_url.netloc \in DOMAIN replacements
        THEN urlunparse([parsed_url EXCEPT !.netloc = replacements[parsed_url.netloc],
                                           !.query = <<>>, !.fragment = <<>>])
        ELSE u

replace_domain(u) ==
    LET parsed_url == urlparse(u)
    IN  IF parsed_url.netloc \in DOMAIN replacements
        THEN urlunparse([parsed_url EXCEPT !.netloc = replacements[parsed_url.netloc]])
        ELSE u

fix_twitter(u) ==
    LET parsed_url == urlparse(u)
    IN  IF parsed_url.netloc \in DOMAIN twitter_replacements
        THEN urlunparse([parsed_url EXCEPT
                            !.netloc = twitter_replacements[parsed_url.netloc]])
        ELSE u

(***************************************************************************)
(* The document reducer, docs_to_str (utils.py).  A fragment is the        *)
(* page_content of one Document: a sequence of characters.                 *)
(***************************************************************************)
\* str.strip()
strip(s) ==
    LET ks == {i \in 1..Len(s) : s[i] \notin Spaces}
    IN  IF ks = {} THEN <<>>
        ELSE SubSeq(s, CHOOSE i \in ks : \A j \in ks : i <= j,
                       CHOOSE i \in ks : \A j \in ks : j <= i)

\* "\n".join(parts)
RECURSIVE join(_)
join(parts) ==
    IF parts = <<>> THEN <<>>
    ELSE IF Len(parts) = 1 THEN parts[1]
    ELSE parts[1] \o <<"\n">> \o join(Tail(parts))

docs_to_str(docs) == join([i \in 1..Len(docs) |-> strip(docs[i])])

(***************************************************************************)
(* The handler's text functions: get_message_text (bot.py) and parse_url   *)
(* (utils.py).                                                             *)
(***************************************************************************)
\* get_message_text with the command's own text put first.
get_message_text_swapped(update) ==
    IF ~update.present THEN <<>>
    ELSE IF update.reply # <<>> THEN update.text \o <<"\n">> \o update.reply
    ELSE update.text

\* update.reply is "" both for no replied-to message and for one with no text.
get_message_text(update) ==
    IF ~update.present THEN <<>>
    ELSE IF update.reply # <<>> THEN update.reply \o <<"\n">> \o update.text
    ELSE update.text

\* The places of s where the pattern https?://[^\s]+ matches.
MatchStarts(s) ==
    {i \in 1..(Len(s) - 4) :
        /\ s[i] \in {"http", "https"}
        /\ s[i+1] = ":" /\ s[i+2] = "/" /\ s[i+3] = "/"
        /\ s[i+4] \notin Spaces}

\* The end of the greedy run of non-white-space tokens that starts at i.
RunEnd(s, i) ==
    CHOOSE e \in i..Len(s) :
        /\ \A k \in i..e : s[k] \notin Spaces
        /\ (e = Len(s) \/ s[e+1] \in Spaces)

\* re.search: the leftmost match, "" when there is none.
parse_url(s) ==
    LET starts == MatchStarts(s)
        first == CHOOSE i \in starts : \A j \in starts : i <= j
    IN  IF starts = {} THEN <<>> ELSE SubSeq(s, first, RunEnd(s, first))

(***************************************************************************)
(* The classifier's string checks (loaders/url.py).                        *)
(***************************************************************************)
is_youtube_url(u) ==
    \/ StartsWith(u, <<"https", ":", "/", "/", "www.youtube.com">>)
    \/ StartsWith(u, <<"https", ":", "/", "/", "youtu.be">>)
    \/ StartsWith(u, <<"https", ":", "/", "/", "m.youtube.com">>)

is_ptt_url(u) == StartsWith(u, <<"https", ":", "/", "/", "www.ptt.cc", "/", "bbs">>)

\* is_pdf: httpx.head raises on a connection error or a timeout,
\* raise_for_status raises on a 4xx or 5xx status; otherwise the
\* content-type header decides.
ProbeResults == {"pdf", "html", "neterror", "timeout", "badstatus"}
ProbeFailures == {"neterror", "timeout", "badstatus"}
is_pdf(head) == IF head \in ProbeFailures THEN "raise" ELSE
                IF head = "pdf" THEN "true" ELSE "false"

\* load_youtube_transcript: a transport error while fetching the caption
\* track counts as no captions.
CaptionResults == {"ok", "none", "error"}
load_youtube_transcript(fetch) == IF fetch = "ok" THEN <<"a">> ELSE <<>>

\* YoutubeLoader.from_youtube_url(...).load() as load_document calls it:
\* ValueError for a URL that holds no video id, the caption fragments
\* otherwise, or the transport's own exception.
YoutubeLoader(u, fetch) ==
    IF ~is_youtube_url(u) THEN "ValueError"
    ELSE IF fetch = "error" THEN "raise"
    ELSE "docs"

(***************************************************************************)
(* What the collaborators can answer.                                      *)
(***************************************************************************)
YT == <<"https", ":", "/", "/", "youtu.be", "/", "a">>
PTT == <<"https", ":", "/", "/", "www.ptt.cc", "/", "bbs", "/", "a">>
TW == <<"https", ":", "/", "/", "x.com", "/", "a">>
WEB == <<"https", ":", "/", "/", "example.com", "/", "a">>
Urls == {YT, PTT, TW, WEB}

MsgTexts == {<<>>, <<"/", "sum">>} \cup {<<"/", "sum", " ">> \o u : u \in Urls}
ReplyTexts == {<<>>, <<"a">>} \cup Urls \cup {<<"a", " ">> \o u \o <<" ", "a">> : u \in Urls}
Messages == [present : {FALSE}, text : {<<>>}, reply : {<<>>}]
            \cup [present : {TRUE}, text : MsgTexts, reply : ReplyTexts]

\* The fragment lists a loader's load() can return.
DocChoices == {<<>>, << <<" ">>, <<>> >>, << <<"a">> >>, << <<"a", " ">>, <<" ", "a">> >>}
\* The texts a loader of loaders/ can return.
LoaderTexts == {<<>>, <<"a">>}

Range(s) == {s[i] : i \in 1..Len(s)}

(***************************************************************************)
(* The idle pipeline: no request is running and no file exists.            *)
(***************************************************************************)
NoMessage == [present |-> FALSE, text |-> <<>>, reply |-> <<>>]

PipeIdle ==
    /\ op = "none" /\ pc = "idle" /\ message = NoMessage
    /\ rawText = <<>> /\ parsed = <<>> /\ url = <<>> /\ calls = <<>>
    /\ captions = "n/a" /\ probe = "n/a" /\ outcome = "none" /\ raisedAt = ""
    /\ text = <<>> /\ replies = 0
    /\ tempFiles = {} /\ created = 0 /\ owned = {}

NormIdle == norm = [in |-> <<>>, fn |-> "none", out |-> <<>>, out2 |-> <<>>, stage |-> 0]
RedIdle == red = [docs |-> <<>>, out |-> <<>>, stage |-> 0]

(***************************************************************************)
(* SpecNorm: the normaliser applied once, then again, to every input of    *)
(* the bounded set.                                                        *)
(***************************************************************************)
Prefixes ==
    {<<>>, <<"/", "/">>, <<"https", ":">>,
     <<"https", ":", "/", "/">>, <<"HTTPS", ":", "/", "/">>}

TailTok == {"x.com", "twitter.com", "/", "a", "?", "#", ";", ":"}

NormInputs == {p \o t : p \in Prefixes, t \in SeqsUpTo(TailTok, MaxTail)}

Normalize(fn, u) == IF fn = "replace_domain" THEN replace_domain(u) ELSE fix_twitter(u)

InitNorm ==
    /\ norm \in [in : NormInputs, fn : {"none"}, out : {<<>>}, out2 : {<<>>}, stage : {0}]
    /\ RedIdle
    /\ PipeIdle

ReplaceDomain ==
    /\ norm.stage = 0
    /\ norm' = [norm EXCEPT !.fn = "replace_domain", !.out = replace_domain(norm.in),
                            !.stage = 1]
    /\ UNCHANGED <<red, pipeVars>>

FixTwitter ==
    /\ norm.stage = 0
    /\ norm' = [norm EXCEPT !.fn = "fix_twitter", !.out = fix_twitter(norm.in),
                            !.stage = 1]
    /\ UNCHANGED <<red, pipeVars>>

Renormalize ==
    /\ norm.stage = 1
    /\ norm' = [norm EXCEPT !.out2 = Normalize(norm.fn, norm.out), !.stage = 2]
    /\ UNCHANGED <<red, pipeVars>>

NextNorm == ReplaceDomain \/ FixTwitter \/ Renormalize

SpecNorm == InitNorm /\ [][NextNorm]_vars

(***************************************************************************)
(* SpecReduce: the reducer applied to every fragment list of the bounded   *)
(* set.                                                                    *)
(***************************************************************************)
FragChars == {"a", " "}
Fragments == SeqsUpTo(FragChars, MaxFragLen)
DocLists == SeqsUpTo(Fragments, MaxDocs)

InitReduce ==
    /\ red \in [docs : DocLists, out : {<<>>}, stage : {0}]
    /\ NormIdle
    /\ PipeIdle

Reduce ==
    /\ red.stage = 0
    /\ red' = [red EXCEPT !.out = docs_to_str(red.docs), !.stage = 1]
    /\ UNCHANGED <<norm, pipeVars>>

NextReduce == Reduce

SpecReduce == InitReduce /\ [][NextReduce]_vars

(***************************************************************************)
(* Spec: requests served one after the other.  A request is either an      *)
(* update handed to summarize_callback (bot.py), which acquires the        *)
(* document with load_document (utils.py), or a call of load_url           *)
(* (loaders/url.py).  Each action runs the code up to and including its    *)
(* next collaborator call.                                                 *)
(***************************************************************************)
Init == NormIdle /\ RedIdle /\ PipeIdle

CanStart == pc \in {"idle", "done"} /\ created < MaxFiles

\* summarize_callback, lines 49-59: the early returns, get_message_text
\* and parse_url.
SumReceive ==
    \E m \in Messages :
        /\ CanStart
        /\ op' = "summarize"
        /\ message' = m
        /\ rawText' = get_message_text(m)
        /\ parsed' = parse_url(get_message_text(m))
        /\ url' = parse_url(get_message_text(m))
        /\ calls' = <<>> /\ captions' = "n/a" /\ probe' = "n/a" /\ raisedAt' = ""
        /\ text' = <<>> /\ replies' = 0 /\ owned' = {}
        /\ IF ~m.present \/ get_message_text(m) = <<>>
              \/ parse_url(get_message_text(m)) = <<>>
           THEN pc' = "done" /\ outcome' = "silent"
           ELSE pc' = "ld_youtube" /\ outcome' = "none"
        /\ UNCHANGED <<norm, red, tempFiles, created>>

\* load_document, lines 49-54: the caption loader under
\* contextlib.suppress(ValueError).
LdYoutube ==
    \E fetch \in CaptionResults, docs \in DocChoices :
        /\ pc = "ld_youtube"
        /\ calls' = Append(calls, "YoutubeLoader")
        /\ captions' = IF is_youtube_url(url) THEN fetch ELSE "n/a"
        /\ \/ /\ YoutubeLoader(url, fetch) = "ValueError"
              /\ pc' = "ld_download"
              /\ UNCHANGED <<text, outcome, raisedAt>>
           \/ /\ YoutubeLoader(url, fetch) = "raise"
              /\ pc' = "sum_error"
              /\ outcome' = "raised" /\ raisedAt' = "YoutubeLoader"
              /\ UNCHANGED text
           \/ /\ YoutubeLoader(url, fetch) = "docs"
              /\ text' = docs_to_str(IF fetch = "ok" THEN docs ELSE <<>>)
              /\ pc' = "sum_text"
              /\ UNCHANGED <<outcome, raisedAt>>
        /\ UNCHANGED <<norm, red, op, message, rawText, parsed, url, probe, replies,
                       tempFiles, created, owned>>

\* download, lines 25-28: the file NamedTemporaryFile(delete=False, suffix)
\* leaves on disk; its name ends in ".pdf" for a PDF content type only.
NamedTemporaryFile(n, contentType) ==
    [id |-> n, name |-> <<"tmp">> \o (IF contentType = "pdf" THEN <<".pdf">> ELSE <<>>)]

\* load_document, lines 61-64: the loader the file's suffix selects.
FileLoader(f) == IF EndsWith(f.name, <<".pdf">>) THEN "PyPDFLoader" ELSE "BSHTMLLoader"

\* load_document, lines 57-59, and download, lines 21-28: fix_twitter, the
\* GET, and the temporary file NamedTemporaryFile(delete=False) leaves.
LdDownload ==
    \E get \in ProbeResults :
        /\ pc = "ld_download"
        /\ url' = fix_twitter(url)
        /\ calls' = Append(calls, "download")
        /\ IF get \in ProbeFailures
           THEN /\ pc' = "sum_error"
                /\ outcome' = "raised" /\ raisedAt' = "download"
                /\ UNCHANGED <<tempFiles, created, owned>>
           ELSE /\ pc' = "ld_extract"
                /\ tempFiles' = tempFiles \cup {NamedTemporaryFile(created + 1, get)}
                /\ owned' = {NamedTemporaryFile(created + 1, get)}
                /\ created' = created + 1
                /\ UNCHANGED <<outcome, raisedAt>>
        /\ UNCHANGED <<norm, red, op, message, rawText, parsed, captions, probe, text,
                       replies>>

\* load_document, lines 61-64: the loader chosen by the file's suffix.
LdExtract ==
    \E f \in owned, raises \in BOOLEAN, docs \in DocChoices :
        /\ pc = "ld_extract"
        /\ calls' = Append(calls, FileLoader(f))
        /\ IF raises
           THEN /\ pc' = "sum_error"
                /\ outcome' = "raised"
                /\ raisedAt' = FileLoader(f)
                /\ UNCHANGED text
           ELSE /\ pc' = "sum_text"
                /\ text' = docs_to_str(docs)
                /\ UNCHANGED <<outcome, raisedAt>>
        /\ UNCHANGED <<norm, red, op, message, rawText, parsed, url, captions, probe,
                       replies, tempFiles, created, owned>>

\* summarize_callback, lines 61-69: nothing for an empty text, else the
\* summary is sent as the reply.
SumReply ==
    /\ pc = "sum_text"
    /\ pc' = "done"
    /\ IF text = <<>>
       THEN outcome' = "silent" /\ UNCHANGED replies
       ELSE outcome' = "document" /\ replies' = replies + 1
    /\ UNCHANGED <<norm, red, op, message, rawText, parsed, url, calls, captions, probe,
                   raisedAt, text, tempFiles, created, owned>>

\* error_callback, lines 137-154: the exception that left the handler is
\* reported to the chat of the update.
SumError ==
    /\ pc = "sum_error"
    /\ pc' = "done"
    /\ replies' = replies + 1
    /\ UNCHANGED <<norm, red, op, message, rawText, parsed, url, calls, captions, probe,
                   outcome, raisedAt, text, tempFiles, created, owned>>

\* load_url, lines 56-58: replace_domain, then the video-platform check.
LuStart ==
    \E u \in Urls :
        /\ CanStart
        /\ op' = "load_url"
        /\ message' = NoMessage /\ rawText' = <<>> /\ parsed' = u
        /\ url' = replace_domain(u)
        /\ calls' = <<>> /\ captions' = "n/a" /\ probe' = "n/a" /\ raisedAt' = ""
        /\ text' = <<>> /\ replies' = 0 /\ owned' = {} /\ outcome' = "none"
        /\ pc' = IF is_youtube_url(replace_domain(u)) THEN "lu_captions" ELSE "lu_probe"
        /\ UNCHANGED <<norm, red, tempFiles, created>>

\* load_url, lines 59-62: the caption track.
LuCaptions ==
    \E fetch \in CaptionResults :
        /\ pc = "lu_captions"
        /\ calls' = Append(calls, "load_youtube_transcript")
        /\ captions' = fetch
        /\ text' = load_youtube_transcript(fetch)
        /\ IF load_youtube_transcript(fetch) # <<>>
           THEN pc' = "done" /\ outcome' = "document"
           ELSE pc' = "lu_video" /\ UNCHANGED outcome
        /\ UNCHANGED <<norm, red, op, message, rawText, parsed, url, probe, raisedAt,
                       replies, tempFiles, created, owned>>

\* load_url, lines 66-69: download and transcribe; with no transcript the
\* code goes on to line 72.
LuVideo ==
    \E raises \in BOOLEAN, t \in LoaderTexts :
        /\ pc = "lu_video"
        /\ calls' = Append(calls, "load_video_transcript")
        /\ IF raises
           THEN /\ pc' = "done" /\ outcome' = "raised"
                /\ raisedAt' = "load_video_transcript"
                /\ UNCHANGED text
           ELSE /\ text' = t
                /\ IF t # <<>>
                   THEN pc' = "done" /\ outcome' = "document"
                   ELSE pc' = "lu_probe" /\ UNCHANGED outcome
                /\ UNCHANGED raisedAt
        /\ UNCHANGED <<norm, red, op, message, rawText, parsed, url, captions, probe,
                       replies, tempFiles, created, owned>>

\* load_url, line 72: the content-type probe.
LuProbe ==
    \E head \in ProbeResults :
        /\ pc = "lu_probe"
        /\ calls' = Append(calls, "is_pdf")
        /\ probe' = head
        /\ \/ /\ is_pdf(head) = "raise"
              /\ pc' = "done" /\ outcome' = "raised" /\ raisedAt' = "is_pdf"
           \/ /\ is_pdf(head) = "true"
              /\ pc' = "lu_pdf" /\ UNCHANGED <<outcome, raisedAt>>
           \/ /\ is_pdf(head) = "false"
              /\ pc' = "lu_page" /\ UNCHANGED <<outcome, raisedAt>>
        /\ UNCHANGED <<norm, red, op, message, rawText, parsed, url, captions, text,
                       replies, tempFiles, created, owned>>

\* A loader of loaders/ is called and load_url returns what it returns.
Load(loader, raises, t) ==
    /\ calls' = Append(calls, loader)
    /\ pc' = "done"
    /\ IF raises
       THEN outcome' = "raised" /\ raisedAt' = loader /\ UNCHANGED text
       ELSE outcome' = "document" /\ text' = t /\ UNCHANGED raisedAt
    /\ UNCHANGED <<norm, red, op, message, rawText, parsed, url, captions, probe,
                   replies, tempFiles, created, owned>>

\* load_url, line 73.
LuPdf ==
    \E raises \in BOOLEAN, t \in LoaderTexts :
        pc = "lu_pdf" /\ Load("load_pdf", raises, t)

\* load_url, lines 76-77.
LuPtt ==
    \E raises \in BOOLEAN, t \in LoaderTexts :
        pc = "lu_page" /\ is_ptt_url(url) /\ Load("load_ptt", raises, t)

\* load_url, line 80.
LuSinglefile ==
    \E raises \in BOOLEAN, t \in LoaderTexts :
        pc = "lu_page" /\ ~is_ptt_url(url) /\ Load("load_singlefile_html", raises, t)

Next ==
    \/ SumReceive \/ LdYoutube \/ LdDownload \/ LdExtract \/ SumReply \/ SumError
    \/ LuStart \/ LuCaptions \/ LuVideo \/ LuProbe \/ LuPdf \/ LuPtt \/ LuSinglefile

Spec == Init /\ [][Next]_vars

(***************************************************************************)
(* C7. URL normalisation is idempotent: normalising the result of a        *)
(* normalisation again, with replace_domain or with fix_twitter, returns   *)
(* it unchanged; no replacement domain of either table is a key of it.     *)
(***************************************************************************)
NormalizeIdempotent ==
    /\ norm.stage = 2 => norm.out2 = norm.out
    /\ \A k \in DOMAIN replacements : replacements[k] \notin DOMAIN replacements
    /\ \A k \in DOMAIN twitter_replacements :
          twitter_replacements[k] \notin DOMAIN twitter_replacements

\* A URL whose host is a key of the table has been normalised twice.
NormalizeIdempotentWitness ==
    /\ norm.stage = 2
    /\ urlparse(norm.in).netloc = <<"x.com">>
    /\ norm.out # norm.in
    /\ urlparse(norm.in).query # <<>>

(***************************************************************************)
(* C8. URL normalisation changes only the host: the scheme, path,          *)
(* parameters, query and fragment of the normalised URL are those of the   *)
(* input, a host that is a key of the table is replaced by its entry, and  *)
(* a URL whose host is not a key of the table is returned unchanged.       *)
(***************************************************************************)
Table(fn) == IF fn = "replace_domain" THEN replacements ELSE twitter_replacements

ForumSelectedWithoutProbe ==
    op = "load_url" =>
        /\ is_ptt_url(url) => "is_pdf" \notin Range(calls)
        /\ is_ptt_url(url) /\ pc = "done" => calls = <<"load_ptt">>
        /\ "is_pdf" \in Range(calls) => ~is_youtube_url(url) /\ ~is_ptt_url(url)

(***************************************************************************)
(* C2. In load_url a video-platform URL is handled by the video strategy   *)
(* alone: the caption loader, then the transcription fallback, and never   *)
(* the probe, the PDF loader, the forum loader or the generic-webpage      *)
(* loader; with no captions and no transcript it ends declined or failed.  *)
(***************************************************************************)
VideoStrategyOnly ==
    op = "load_url" /\ is_youtube_url(url) =>
        /\ Range(calls) \subseteq {"load_youtube_transcript", "load_video_transcript"}
        /\ Len(calls) >= 1 => calls[1] = "load_youtube_transcript"
        /\ Len(calls) >= 2 => calls[2] = "load_video_transcript"
        /\ pc = "done" /\ text = <<>> => outcome \in {"declined", "failed", "raised"}

(***************************************************************************)
(* C3. A network failure of the content-type probe is swallowed: is_pdf    *)
(* does not raise, and load_url goes on to its next classification step.   *)
(***************************************************************************)
ProbeFailureSwallowed ==
    probe \in ProbeFailures =>
        /\ raisedAt # "is_pdf"
        /\ pc = "done" => calls[Len(calls)] \in {"load_ptt", "load_singlefile_html"}

(***************************************************************************)
(* C4. A summarize request whose text holds a URL ends with exactly one    *)
(* outcome, a Document or a "Failed to load URL" signal, and one reply: no *)
(* exception of a collaborator leaves load_document, and the request does  *)
(* not end silently.                                                       *)
(***************************************************************************)
ExactlyOneOutcome ==
    op = "summarize" /\ pc = "done" /\ parsed # <<>> =>
        /\ outcome \in {"document", "failed"}
        /\ raisedAt = ""
        /\ replies = 1

(***************************************************************************)
(* C5. Every temporary file download() created is deleted before           *)
(* load_document returns or raises: once an acquisition has finished, no   *)
(* temporary file exists.                                                  *)
(***************************************************************************)
NoTempFileOutlivesAcquisition ==
    pc \in {"sum_text", "sum_error", "done", "idle"} => tempFiles = {}

(***************************************************************************)
(* C6. A transport error raised while the caption track is fetched counts  *)
(* as no captions: it does not leave the acquisition, and the fallback     *)
(* step is taken.                                                          *)
(***************************************************************************)
CaptionErrorTriggersFallback ==
    captions = "error" =>
        /\ raisedAt \notin {"YoutubeLoader", "load_youtube_transcript"}
        /\ pc \in {"sum_text", "sum_error", "done"} => Len(calls) >= 2

(***************************************************************************)
(* C9. docs_to_str trims each fragment, discards the fragments that are    *)
(* empty after trimming and joins the others in order with one newline     *)
(* between neighbours; fragments that are all empty give the empty string. *)
(***************************************************************************)
Stripped(docs) == [i \in 1..Len(docs) |-> strip(docs[i])]

ReduceDiscardsEmptyFragments ==
    red.stage = 1 =>
        /\ red.out = join(SelectSeq(Stripped(red.docs), LAMBDA f : f # <<>>))
        /\ (\A i \in 1..Len(red.docs) : strip(red.docs[i]) = <<>>) => red.out = <<>>

(***************************************************************************)
(* C10, as stated. The raw text handed to parse_url is the command's own   *)
(* text, a newline, then the replied-to text; when both hold a URL, the    *)
(* URL extracted is the one of the command's own text.                     *)
(***************************************************************************)
HasUrl(t) == parse_url(t) # <<>>

CommandTextFirst ==
    op = "summarize" /\ message.present =>
        /\ message.reply # <<>> => rawText = message.text \o <<"\n">> \o message.reply
        /\ HasUrl(message.text) /\ HasUrl(message.reply)
              => parsed = parse_url(message.text)

(***************************************************************************)
(* C10, amended. The raw text handed to parse_url is the replied-to text,  *)
(* a newline, then the command's own text (the command's own text alone    *)
(* when no replied-to text exists); when both hold a URL, the URL          *)
(* extracted and loaded is the one of the replied-to text.                 *)
(***************************************************************************)
ReplyTextFirst ==
    op = "summarize" /\ message.present =>
        /\ message.reply # <<>> => rawText = message.reply \o <<"\n">> \o message.text
        /\ message.reply = <<>> => rawText = message.text
        /\ HasUrl(message.text) /\ HasUrl(message.reply)
              => /\ parsed = parse_url(message.reply)
                 /\ calls # <<>> => url \in {parsed, fix_twitter(parsed)}

\* A command with its own URL, sent in reply to a text that holds another
\* URL between words, has loaded a document.
ReplyTextFirstWitness ==
    /\ op = "summarize" /\ pc = "done" /\ outcome = "document"
    /\ message.text = <<"/", "sum", " ">> \o YT
    /\ message.reply = <<"a", " ">> \o WEB \o <<" ", "a">>
    /\ parsed = WEB
    /\ calls = <<"YoutubeLoader", "download", "BSHTMLLoader">>

=============================================================================
